---------------------------- MODULE Spec2Model ----------------------------
(***************************************************************************)
(* Row-level access control of the kenyahomes254 marketplace: the tables   *)
(* and policies of supabase/migrations, the validate_message_seeker        *)
(* trigger, and the writes the pages issue through the data API.           *)
(*                                                                         *)
(* The migration scripts are applied in dependency order: the script that  *)
(* creates the tables first, the others in the order of their timestamps.  *)
(* The data API serves requests once the schema is fully migrated.         *)
(***************************************************************************)
EXTENDS Integers, Sequences, FiniteSets, TLC

VARIABLES
    applied,      \* number of migration scripts applied so far
    policies,     \* names of the SELECT policies on public.profiles
    view,         \* public.public_agent_profiles: [exists, invoker]
    users,        \* rows of auth.users: id, and role of raw_user_meta_data
    profiles,     \* rows of public.profiles
    properties,   \* rows of public.properties
    photos,       \* rows of public.property_photos
    saved,        \* rows of public.saved_properties
    messages,     \* rows of public.messages
    last,         \* the last write request and its outcome
    scenario,     \* progress and observations of the listing walk-through
    widgets,      \* state of the mounted PropertyCard and PropertyDetail
    toast,        \* what the last save handler showed the user
    sent          \* the row of the last recorded insert into messages

vars ==
    <<applied, policies, view, users, profiles, properties, photos, saved, messages, last,
      scenario, widgets, toast, sent>>

\* The schema, the rows, and the state kept outside the database.
schema == <<applied, policies, view>>
store == <<profiles, properties, photos, saved, messages>>
client == <<scenario, widgets, toast, sent>>

-----------------------------------------------------------------------------
(* Bounds of the model. *)

MaxUsers == 2
MaxProperties == 1
MaxPhotos == 1
MaxSaved == 2
MaxMessages == 1

UserIds == 1..MaxUsers
PropertyIds == 1..MaxProperties
PhotoIds == 1..MaxPhotos
SavedIds == 1..MaxSaved
MessageIds == 1..MaxMessages

\* auth.uid() of a request without a session: SQL NULL.
NullId == 0

\* Every identity a request can carry.
Actors == UserIds \cup {NullId}

\* SQL NULL of a text column.
NullText == <<"NULL">>

-----------------------------------------------------------------------------
(* SQL three-valued logic: "t", "f" and "n" (unknown).  A USING or WITH    *)
(* CHECK expression admits a row, and a plpgsql IF fires, only on "t".     *)

SqlEq(a, b) == IF a = NullId \/ b = NullId THEN "n" ELSE IF a = b THEN "t" ELSE "f"

SqlNot(x) == IF x = "n" THEN "n" ELSE IF x = "t" THEN "f" ELSE "t"

SqlNe(a, b) == SqlNot(SqlEq(a, b))

SqlAnd(x, y) ==
    IF x = "f" \/ y = "f" THEN "f" ELSE IF x = "t" /\ y = "t" THEN "t" ELSE "n"

SqlOr(x, y) ==
    IF x = "t" \/ y = "t" THEN "t" ELSE IF x = "f" /\ y = "f" THEN "f" ELSE "n"

SqlBool(b) == IF b THEN "t" ELSE "f"

SqlIsNull(a) == SqlBool(a = NullId)


-----------------------------------------------------------------------------
(* The schema: SELECT policies on profiles and the public_agent_profiles   *)
(* view.  A schema is a record [policies, view].                           *)

Roles == {"seeker", "agent", "admin"}

ProfileColumns == {"id", "email", "role", "name", "phone", "verified", "created_at"}

\* The select list of public_agent_profiles.
ViewColumns == {"id", "name", "role", "verified", "created_at"}

NoView == [exists |-> FALSE, invoker |-> FALSE]

\* CREATE VIEW / CREATE OR REPLACE VIEW without options: the view runs with
\* its owner's rights, and the owner of the table is not subject to its RLS.
DefinerView == [exists |-> TRUE, invoker |-> FALSE]

\* WITH (security_invoker = true): the caller's RLS applies underneath.
InvokerView == [exists |-> TRUE, invoker |-> TRUE]

\* The USING expression of each SELECT policy ever created on profiles.
PolicyUsing(name, uid, row) ==
    CASE name = "Public profiles are viewable by everyone" -> "t"
      [] name = "Users can view own profile" -> SqlEq(uid, row.id)
      [] name = "Public can view basic agent info" ->
            SqlAnd(SqlNe(uid, row.id), SqlBool(row.role = "agent"))
      [] name = "Users can view own full profile" -> SqlEq(uid, row.id)
      [] name = "Anyone can view agent basic info" -> SqlBool(row.role = "agent")
      [] name = "Public can view basic agent info only" ->
            SqlAnd(SqlBool(row.role = "agent"), SqlIsNull(uid))
      [] name = "Everyone can view agent profiles" -> SqlBool(row.role = "agent")
      [] name = "Public can view agent profiles without email" ->
            SqlAnd(SqlBool(row.role = "agent"), SqlIsNull(uid))

\* create table profiles ... create policy "Public profiles are viewable by everyone"
CreateTables(s) ==
    [policies |-> {"Public profiles are viewable by everyone"}, view |-> NoView]

\* RestrictProfiles without its CREATE POLICY "Users can view own full profile".
RestrictProfilesNoOwn(s) ==
    [s EXCEPT !.policies =
        (@ \ {"Public profiles are viewable by everyone"})
            \cup {"Anyone can view agent basic info"}]

\* Drops the permissive policy; the two policies it creates first are dropped
\* again by the same script.
RestrictProfiles(s) ==
    [s EXCEPT !.policies =
        ((((@ \ {"Public profiles are viewable by everyone"})
              \cup {"Users can view own profile", "Public can view basic agent info"})
              \ {"Users can view own profile", "Public can view basic agent info"})
              \cup {"Users can view own full profile", "Anyone can view agent basic info"})]

CreateAgentView(s) ==
    [policies |-> s.policies \ {"Anyone can view agent basic info"}, view |-> DefinerView]

RecreateViewInvoker(s) == [s EXCEPT !.view = InvokerView]

\* security_barrier does not change which rows the view returns.
AnonAgentPolicy(s) ==
    [s EXCEPT !.policies = @ \cup {"Public can view basic agent info only"}]

EveryoneAgentPolicy(s) ==
    [s EXCEPT !.policies =
        (@ \ {"Public can view basic agent info only"})
            \cup {"Everyone can view agent profiles"}]

\* CREATE OR REPLACE VIEW replaces the view's options by those of the
\* statement, which gives none.
ReplaceViewAnonPolicy(s) ==
    [policies |-> (s.policies \ {"Everyone can view agent profiles"})
                     \cup {"Public can view agent profiles without email"},
     view |-> DefinerView]

\* DROP VIEW ... CASCADE; CREATE VIEW; ALTER VIEW SET (security_invoker = true)
RecreateView(s) == [s EXCEPT !.view = InvokerView]

\* validate_message_before_insert: changes no policy and no view.
CreateMessageTrigger(s) == s

MigrationOrder ==
    << "CreateTables", "RestrictProfiles", "CreateAgentView", "RecreateViewInvoker",
       "AnonAgentPolicy", "EveryoneAgentPolicy", "ReplaceViewAnonPolicy",
       "RecreateView", "CreateMessageTrigger" >>

NMigrations == Len(MigrationOrder)

RunMigration(name, s) ==
    CASE name = "CreateTables" -> CreateTables(s)
      [] name = "RestrictProfiles" -> RestrictProfiles(s)
      [] name = "CreateAgentView" -> CreateAgentView(s)
      [] name = "RecreateViewInvoker" -> RecreateViewInvoker(s)
      [] name = "AnonAgentPolicy" -> AnonAgentPolicy(s)
      [] name = "EveryoneAgentPolicy" -> EveryoneAgentPolicy(s)
      [] name = "ReplaceViewAnonPolicy" -> ReplaceViewAnonPolicy(s)
      [] name = "RecreateView" -> RecreateView(s)
      [] name = "CreateMessageTrigger" -> CreateMessageTrigger(s)

\* Every migration script has run.
Migrated == applied = NMigrations

-----------------------------------------------------------------------------
(* Reads.  A read is a function of the actor and the current rows: the     *)
(* rows the policies admit, a denied row being absent and not an error.    *)

Project(row, cols) == [c \in cols |-> row[c]]

\* select * from profiles, as uid: the policies are OR-ed.
SelectProfiles(uid) ==
    {r \in profiles : \E name \in policies : PolicyUsing(name, uid, r) = "t"}

\* select * from public_agent_profiles, as uid.
SelectPublicAgentProfiles(uid) ==
    IF ~view.exists THEN {}
    ELSE {Project(r, ViewColumns) :
            r \in {q \in (IF view.invoker THEN SelectProfiles(uid) ELSE profiles) :
                      q.role = "agent"}}

\* A properties policy that admits every row.
PropertyVisibleToAnyone(uid, p) == TRUE

\* The properties policy without its owner clause.
PropertyVisiblePublishedOnly(uid, p) == p.status = "published"

\* select * from properties, as uid.
PropertyVisible(uid, p) ==
    SqlOr(SqlBool(p.status = "published"), SqlEq(p.agent_id, uid)) = "t"

SelectProperties(uid) == {p \in properties : PropertyVisible(uid, p)}

\* The photos policy without the join on the parent's visibility.
PhotoVisibleAlways(uid, ph) == \E p \in properties : p.id = ph.property_id

\* select * from property_photos, as uid.  The policy's subquery reads
\* properties as the same actor, so it sees only the rows visible to uid.
PhotoVisible(uid, ph) ==
    \E p \in SelectProperties(uid) :
        /\ p.id = ph.property_id
        /\ SqlOr(SqlBool(p.status = "published"), SqlEq(p.agent_id, uid)) = "t"

SelectPhotos(uid) == {ph \in photos : PhotoVisible(uid, ph)}

\* PropertyDetail.fetchProperty's first read, as uid: the property with id x
\* and its photos embedded, .single() turning anything but one row into an
\* error, on which the page toasts "Property not found" and navigates home.
NotFound == [data |-> {}, photos |-> {}, error |-> "PGRST116"]

FetchProperty(uid, x) ==
    LET rows == {p \in SelectProperties(uid) : p.id = x}
    IN  IF Cardinality(rows) = 1
        THEN [data |-> rows,
              photos |-> {ph \in SelectPhotos(uid) : ph.property_id = x},
              error |-> "none"]
        ELSE NotFound

\* A saved_properties policy that also admits the agent of the saved property.
SavedVisibleToAgent(uid, sp) ==
    \/ SqlEq(uid, sp.user_id) = "t"
    \/ \E p \in properties : p.id = sp.property_id /\ SqlEq(uid, p.agent_id) = "t"

\* select * from saved_properties, as uid.
SavedVisible(uid, sp) == SqlEq(uid, sp.user_id) = "t"

SelectSaved(uid) == {sp \in saved : SavedVisible(uid, sp)}

\* A messages policy that admits every signed-in actor.
MessageVisibleToSignedIn(uid, m) == SqlIsNull(uid) = "f"

\* select * from messages, as uid: two SELECT policies, OR-ed.
MessageVisible(uid, m) ==
    \/ SqlEq(uid, m.agent_id) = "t"
    \/ SqlEq(uid, m.seeker_id) = "t"

SelectMessages(uid) == {m \in messages : MessageVisible(uid, m)}

-----------------------------------------------------------------------------
(* Text values are sequences of one-character strings.                     *)

LowerCase ==
    {"a", "b", "c", "d", "e", "f", "g", "h", "i", "j", "k", "l", "m",
     "n", "o", "p", "q", "r", "s", "t", "u", "v", "w", "x", "y", "z"}

UpperCase ==
    {"A", "B", "C", "D", "E", "F", "G", "H", "I", "J", "K", "L", "M",
     "N", "O", "P", "Q", "R", "S", "T", "U", "V", "W", "X", "Y", "Z"}

Letters == LowerCase \cup UpperCase

Digits == {"0", "1", "2", "3", "4", "5", "6", "7", "8", "9"}

\* [A-Za-z0-9._%+-]
EmailLocalChars == Letters \cup Digits \cup {".", "_", "%", "+", "-"}

\* [A-Za-z0-9.-]
EmailDomainChars == Letters \cup Digits \cup {".", "-"}

AllIn(s, from, to, class) == \A k \in from..to : s[k] \in class

\* A format test that every text passes.
MatchesAnyText(s) == TRUE

\* s ~ '^[A-Za-z0-9._%+-]+@[A-Za-z0-9.-]+\.[A-Za-z]{2,}$'
MatchesEmail(s) ==
    \E i \in 1..Len(s) :
        /\ s[i] = "@"
        /\ 1 < i
        /\ AllIn(s, 1, i - 1, EmailLocalChars)
        /\ \E j \in 1..Len(s) :
                /\ s[j] = "."
                /\ i + 1 < j
                /\ j + 2 <= Len(s)
                /\ AllIn(s, i + 1, j - 1, EmailDomainChars)
                /\ AllIn(s, j + 1, Len(s), Letters)

\* regexp_replace(s, '[^0-9+]', '', 'g')
StripPhone(s) == SelectSeq(s, LAMBDA c : c \in Digits \cup {"+"})

MinPhoneDigits == 6
MaxPhoneDigits == 20

\* s ~ '^\+?[0-9]{6,20}$'
MatchesPhone(s) ==
    LET d == IF Len(s) > 0 /\ s[1] = "+" THEN Tail(s) ELSE s
    IN  /\ Len(d) >= MinPhoneDigits
        /\ Len(d) <= MaxPhoneDigits
        /\ AllIn(d, 1, Len(d), Digits)

\* trim(s): strips the spaces, and only the spaces, at both ends.
RECURSIVE LTrim(_)
LTrim(s) == IF Len(s) > 0 /\ s[1] = " " THEN LTrim(Tail(s)) ELSE s

RECURSIVE RTrim(_)
RTrim(s) ==
    IF Len(s) > 0 /\ s[Len(s)] = " " THEN RTrim(SubSeq(s, 1, Len(s) - 1)) ELSE s

Trim(s) == RTrim(LTrim(s))

MaxEmailLen == 255
MaxPhoneLen == 20
MaxBodyLen == 5000

\* validate_message_seeker(): the error the trigger raises for row `new`
\* inserted by uid, or "ok" when it returns NEW.
ValidateMessageSeeker(uid, new) ==
    IF SqlNe(new.seeker_id, uid) = "t"
        THEN "seeker_id must match authenticated user"
    ELSE IF new.email # NullText /\ new.email # <<>> /\ ~MatchesEmail(new.email)
        THEN "Invalid email format"
    ELSE IF new.email # NullText /\ new.email # <<>> /\ Len(new.email) > MaxEmailLen
        THEN "Email must be less than 255 characters"
    ELSE IF new.phone # NullText /\ new.phone # <<>> /\ ~MatchesPhone(StripPhone(new.phone))
        THEN "Invalid phone format"
    ELSE IF new.phone # NullText /\ new.phone # <<>> /\ Len(new.phone) > MaxPhoneLen
        THEN "Phone must be less than 20 characters"
    ELSE IF new.body = NullText \/ Trim(new.body) = <<>>
        THEN "Message body cannot be empty"
    ELSE IF Len(new.body) > MaxBodyLen
        THEN "Message must be less than 5000 characters"
    ELSE "ok"

-----------------------------------------------------------------------------
(* Writes.  Every write records its outcome in `last`: the error of the    *)
(* first failing step, or "ok" with the number of rows it wrote.  An       *)
(* UPDATE or DELETE whose USING expression admits no row is not an error:  *)
(* it writes zero rows.                                                    *)

Outcome(op, actor, err, rows) == [op |-> op, actor |-> actor, err |-> err, rows |-> rows]

RlsError == "new row violates row-level security policy"
NotNullError == "null value violates not-null constraint"
CheckError == "new row violates check constraint"
UniqueError == "duplicate key value violates unique constraint"
ForeignKeyError == "insert or update violates foreign key constraint"

Ids(rows) == {r.id : r \in rows}

\* gen_random_uuid(): an id no row of the table has.
FreshId(pool, rows) == CHOOSE i \in pool \ Ids(rows) : \A j \in pool \ Ids(rows) : i <= j

\* A request carries no session, or the session of a registered user.
Session(a) == a = NullId \/ a \in Ids(profiles)

UserDigit == <<"1", "2", "3", "4", "5", "6", "7", "8", "9">>

\* The address a user registers with; profiles.email is unique.
UserEmail(u) == <<"u", UserDigit[u], "@", "b", ".", "c", "o">>

\* The role key of raw_user_meta_data; "NULL" when the key is absent.
MetaRoles == {"NULL", "seeker", "agent", "admin", "owner"}

Coalesce(x, default) == IF x = "NULL" THEN default ELSE x

\* handle_new_user() with the role of the metadata left aside.
NewProfileAlwaysSeeker(u, metaRole) ==
    [id |-> u, email |-> UserEmail(u), role |-> "seeker",
     name |-> <<"n">>, phone |-> NullText, verified |-> FALSE, created_at |-> 0]

\* handle_new_user(): the profile row inserted for new auth user u.
NewProfile(u, metaRole) ==
    [id |-> u, email |-> UserEmail(u), role |-> Coalesce(metaRole, "seeker"),
     name |-> <<"n">>, phone |-> NullText, verified |-> FALSE, created_at |-> 0]

\* auth.signUp: insert into auth.users, then the on_auth_user_created
\* trigger in the same transaction.
SignUp(u, metaRole) ==
    /\ Migrated
    /\ u \notin Ids(users)
    /\ LET new == NewProfile(u, metaRole)
       IN  IF new.role \notin Roles
           THEN /\ last' = Outcome("signup", NullId, CheckError, 0)
                /\ UNCHANGED <<users, profiles>>
           ELSE /\ users' = users \cup {[id |-> u, role |-> metaRole]}
                /\ profiles' = profiles \cup {new}
                /\ last' = Outcome("signup", NullId, "ok", 1)
    /\ UNCHANGED <<schema, properties, photos, saved, messages>>

\* insert into profiles (id, role, ...), as a.
\* "Users can insert own profile": WITH CHECK (auth.uid() = id).
InsertProfileError(a, id, role) ==
    IF SqlEq(a, id) # "t" THEN RlsError
    ELSE IF role \notin Roles THEN CheckError
    ELSE IF id \in Ids(profiles) THEN UniqueError
    ELSE IF id \notin Ids(users) THEN ForeignKeyError
    ELSE "ok"

InsertProfile(a, id, role) ==
    /\ Migrated
    /\ Session(a)
    /\ LET err == InsertProfileError(a, id, role)
       IN  IF err # "ok"
           THEN /\ last' = Outcome("insert_profile", a, err, 0)
                /\ UNCHANGED profiles
           ELSE /\ profiles' = profiles \cup {NewProfile(id, role)}
                /\ last' = Outcome("insert_profile", a, "ok", 1)
    /\ UNCHANGED <<schema, users, properties, photos, saved, messages>>

\* update profiles set role = ... where id = target, as a.
\* "Users can update own profile": USING (auth.uid() = id), no WITH CHECK.
UpdateProfile(a, target, role) ==
    /\ Migrated
    /\ Session(a)
    /\ LET hit == {r \in profiles : r.id = target /\ SqlEq(a, r.id) = "t"}
       IN  IF hit = {}
           THEN /\ last' = Outcome("update_profile", a, "ok", 0)
                /\ UNCHANGED profiles
           ELSE IF role \notin Roles
           THEN /\ last' = Outcome("update_profile", a, CheckError, 0)
                /\ UNCHANGED profiles
           ELSE /\ profiles' = (profiles \ hit) \cup {[r EXCEPT !.role = role] : r \in hit}
                /\ last' = Outcome("update_profile", a, "ok", 1)
    /\ UNCHANGED <<schema, users, properties, photos, saved, messages>>

PropertyStatuses == {"draft", "published", "archived"}

\* The status values a payload may carry; "NULL" takes the column default.
PayloadStatuses == PropertyStatuses \cup {"NULL", "sold"}

\* insert into properties (agent_id, status, ...), as a.
\* "Agents can insert their own properties": WITH CHECK (auth.uid() = agent_id).
InsertPropertyError(a, agent_id, status) ==
    IF SqlEq(a, agent_id) # "t" THEN RlsError
    ELSE IF agent_id = NullId THEN NotNullError
    ELSE IF status \notin PropertyStatuses THEN CheckError
    ELSE IF agent_id \notin Ids(profiles) THEN ForeignKeyError
    ELSE "ok"

InsertProperty(a, agent_id, status) ==
    /\ Migrated
    /\ Session(a)
    /\ Ids(properties) # PropertyIds
    /\ LET st == Coalesce(status, "draft")
           err == InsertPropertyError(a, agent_id, st)
       IN  IF err # "ok"
           THEN /\ last' = Outcome("insert_property", a, err, 0)
                /\ UNCHANGED properties
           ELSE /\ properties' = properties \cup
                        {[id |-> FreshId(PropertyIds, properties),
                          agent_id |-> agent_id, status |-> st]}
                /\ last' = Outcome("insert_property", a, "ok", 1)
    /\ UNCHANGED <<schema, users, profiles, photos, saved, messages>>

\* An UPDATE/DELETE policy on properties that admits every signed-in actor.
PropertyWritableBySignedIn(a, p) == SqlIsNull(a) = "f"

\* "Agents can update their own properties": USING (auth.uid() = agent_id);
\* without WITH CHECK the USING expression also checks the new row.
PropertyWritable(a, p) == SqlEq(a, p.agent_id) = "t"

\* update properties set agent_id = ..., status = ... where id = pid, as a.
UpdateProperty(a, pid, agent_id, status) ==
    /\ Migrated
    /\ Session(a)
    /\ LET hit == {p \in properties : p.id = pid /\ PropertyWritable(a, p)}
           new(p) == [p EXCEPT !.agent_id = agent_id, !.status = status]
       IN  IF hit = {}
           THEN /\ last' = Outcome("update_property", a, "ok", 0)
                /\ UNCHANGED properties
           ELSE IF \E p \in hit : ~PropertyWritable(a, new(p))
           THEN /\ last' = Outcome("update_property", a, RlsError, 0)
                /\ UNCHANGED properties
           ELSE IF status \notin PropertyStatuses
           THEN /\ last' = Outcome("update_property", a, CheckError, 0)
                /\ UNCHANGED properties
           ELSE /\ properties' = (properties \ hit) \cup {new(p) : p \in hit}
                /\ last' = Outcome("update_property", a, "ok", 1)
    /\ UNCHANGED <<schema, users, profiles, photos, saved, messages>>

\* The delete with ON DELETE CASCADE on property_photos alone.
DeletePropertyPhotosOnly(a, pid) ==
    /\ Migrated
    /\ Session(a)
    /\ LET hit == {p \in properties : p.id = pid /\ PropertyWritable(a, p)}
       IN  IF hit = {}
           THEN /\ last' = Outcome("delete_property", a, "ok", 0)
                /\ UNCHANGED <<properties, photos, saved, messages>>
           ELSE /\ properties' = properties \ hit
                /\ photos' = {ph \in photos : ph.property_id # pid}
                /\ last' = Outcome("delete_property", a, "ok", 1)
                /\ UNCHANGED <<saved, messages>>
    /\ UNCHANGED <<schema, users, profiles>>

\* delete from properties where id = pid, as a.  The rows that reference the
\* property are declared ON DELETE CASCADE.
DeleteProperty(a, pid) ==
    /\ Migrated
    /\ Session(a)
    /\ LET hit == {p \in properties : p.id = pid /\ PropertyWritable(a, p)}
       IN  IF hit = {}
           THEN /\ last' = Outcome("delete_property", a, "ok", 0)
                /\ UNCHANGED <<properties, photos, saved, messages>>
           ELSE /\ properties' = properties \ hit
                /\ photos' = {ph \in photos : ph.property_id # pid}
                /\ saved' = {sp \in saved : sp.property_id # pid}
                /\ messages' = {m \in messages : m.property_id # pid}
                /\ last' = Outcome("delete_property", a, "ok", 1)
    /\ UNCHANGED <<schema, users, profiles>>

\* The EXISTS of the three write policies on property_photos: a property
\* with this id whose agent is the actor.
PhotoWritable(a, property_id) ==
    \E p \in SelectProperties(a) : p.id = property_id /\ SqlEq(p.agent_id, a) = "t"

\* insert into property_photos (property_id, storage_path, ordering), as a.
InsertPhoto(a, property_id) ==
    /\ Migrated
    /\ Session(a)
    /\ Ids(photos) # PhotoIds
    /\ IF ~PhotoWritable(a, property_id)
       THEN /\ last' = Outcome("insert_photo", a, RlsError, 0)
            /\ UNCHANGED photos
       ELSE /\ photos' = photos \cup
                    {[id |-> FreshId(PhotoIds, photos), property_id |-> property_id]}
            /\ last' = Outcome("insert_photo", a, "ok", 1)
    /\ UNCHANGED <<schema, users, profiles, properties, saved, messages>>

\* delete from property_photos where id = phid, as a.
DeletePhoto(a, phid) ==
    /\ Migrated
    /\ Session(a)
    /\ LET hit == {ph \in photos : ph.id = phid /\ PhotoWritable(a, ph.property_id)}
       IN  /\ photos' = photos \ hit
           /\ last' = Outcome("delete_photo", a, "ok", Cardinality(hit))
    /\ UNCHANGED <<schema, users, profiles, properties, saved, messages>>

\* The insert into a saved_properties table without unique (user_id, property_id).
InsertSavedErrorNoUnique(a, user_id, property_id) ==
    IF SqlEq(a, user_id) # "t" THEN RlsError
    ELSE IF user_id \notin Ids(profiles) \/ property_id \notin Ids(properties)
        THEN ForeignKeyError
    ELSE "ok"

\* insert into saved_properties (user_id, property_id), as a.
\* "Users can save properties": WITH CHECK (auth.uid() = user_id).
InsertSavedError(a, user_id, property_id) ==
    IF SqlEq(a, user_id) # "t" THEN RlsError
    ELSE IF \E sp \in saved : sp.user_id = user_id /\ sp.property_id = property_id
        THEN UniqueError
    ELSE IF user_id \notin Ids(profiles) \/ property_id \notin Ids(properties)
        THEN ForeignKeyError
    ELSE "ok"

InsertSaved(a, user_id, property_id) ==
    /\ Migrated
    /\ Session(a)
    /\ Ids(saved) # SavedIds
    /\ LET err == InsertSavedError(a, user_id, property_id)
       IN  IF err # "ok"
           THEN /\ last' = Outcome("insert_saved", a, err, 0)
                /\ UNCHANGED saved
           ELSE /\ saved' = saved \cup
                        {[id |-> FreshId(SavedIds, saved), user_id |-> user_id,
                          property_id |-> property_id]}
                /\ last' = Outcome("insert_saved", a, "ok", 1)
    /\ UNCHANGED <<schema, users, profiles, properties, photos, messages>>

\* delete from saved_properties where user_id = ... and property_id = ..., as a.
\* "Users can unsave properties": USING (auth.uid() = user_id).
DeleteSaved(a, user_id, property_id) ==
    /\ Migrated
    /\ Session(a)
    /\ LET hit == {sp \in saved : /\ sp.user_id = user_id
                                  /\ sp.property_id = property_id
                                  /\ SqlEq(a, sp.user_id) = "t"}
       IN  /\ saved' = saved \ hit
           /\ last' = Outcome("delete_saved", a, "ok", Cardinality(hit))
    /\ UNCHANGED <<schema, users, profiles, properties, photos, messages>>

MessageStatuses == {"unread", "read", "responded"}

\* The texts a message payload draws from.
\* A valid text and an invalid one for each text column of a message.
GoodBody == <<"h", "i">>
BlankBody == <<" ">>
GoodEmail == <<"a", "@", "b", ".", "c", "o">>
BadEmail == <<"n", "o", "t">>
BadPhone == <<"1", "2", "3">>

\* The texts of a payload: all valid, or exactly one column invalid.
PayloadTexts ==
    {[body |-> GoodBody, email |-> NullText, phone |-> NullText],
     [body |-> GoodBody, email |-> GoodEmail, phone |-> NullText],
     [body |-> BlankBody, email |-> GoodEmail, phone |-> NullText],
     [body |-> GoodBody, email |-> BadEmail, phone |-> NullText],
     [body |-> GoodBody, email |-> GoodEmail, phone |-> BadPhone]}

\* The messages INSERT policy with WITH CHECK (true).
MessageInsertableByAnyone(a, new) == TRUE

\* "Authenticated users can send messages": WITH CHECK (auth.uid() = seeker_id).
MessageInsertable(a, new) == SqlEq(a, new.seeker_id) = "t"

\* The insert without the validate_message_before_insert trigger.
InsertMessageErrorNoTrigger(a, new) ==
    IF ~MessageInsertable(a, new) THEN RlsError
    ELSE IF new.seeker_id = NullId \/ new.agent_id = NullId THEN NotNullError
    ELSE IF \/ new.property_id \notin Ids(properties)
            \/ new.seeker_id \notin Ids(profiles)
            \/ new.agent_id \notin Ids(profiles)
        THEN ForeignKeyError
    ELSE "ok"

\* insert into messages (...) values new, as a: the BEFORE INSERT trigger,
\* then the policy, then the constraints of the table.
InsertMessageError(a, new) ==
    LET raised == ValidateMessageSeeker(a, new)
    IN
    IF raised # "ok" THEN raised
    ELSE IF ~MessageInsertable(a, new) THEN RlsError
    ELSE IF new.seeker_id = NullId \/ new.agent_id = NullId THEN NotNullError
    ELSE IF \/ new.property_id \notin Ids(properties)
            \/ new.seeker_id \notin Ids(profiles)
            \/ new.agent_id \notin Ids(profiles)
        THEN ForeignKeyError
    ELSE "ok"

InsertMessage(a, new) ==
    /\ Migrated
    /\ Session(a)
    /\ Ids(messages) # MessageIds
    /\ LET err == InsertMessageError(a, new)
       IN  IF err # "ok"
           THEN /\ last' = Outcome("insert_message", a, err, 0)
                /\ UNCHANGED messages
           ELSE /\ messages' = messages \cup
                        {[new EXCEPT !.id = FreshId(MessageIds, messages)]}
                /\ last' = Outcome("insert_message", a, "ok", 1)
    /\ UNCHANGED <<schema, users, profiles, properties, photos, saved>>

\* The rows a client can send: id and status take their column defaults.
MessagePayloads ==
    {[id |-> 0, property_id |-> p, seeker_id |-> s, agent_id |-> g,
      body |-> t.body, email |-> t.email, phone |-> t.phone, status |-> "unread"] :
        p \in PropertyIds, s \in Actors, g \in Actors, t \in PayloadTexts}

\* update messages set status = ... where id = mid, as a.
\* "Agents can update message status": USING (auth.uid() = agent_id).
UpdateMessage(a, mid, status) ==
    /\ Migrated
    /\ Session(a)
    /\ LET hit == {m \in messages : m.id = mid /\ SqlEq(a, m.agent_id) = "t"}
       IN  /\ messages' = (messages \ hit) \cup {[m EXCEPT !.status = status] : m \in hit}
           /\ last' = Outcome("update_message", a, "ok", Cardinality(hit))
    /\ UNCHANGED <<schema, users, profiles, properties, photos, saved>>

\* update messages set <column = value, ...> where id = mid, as a: the same
\* policy, which names no column; without a WITH CHECK the USING expression
\* is applied to the new row as well.  No trigger runs on UPDATE.
UpdateMessageError(a, new) ==
    IF SqlEq(a, new.agent_id) # "t" THEN RlsError
    ELSE IF new.seeker_id = NullId \/ new.agent_id = NullId \/ new.body = NullText
        THEN NotNullError
    ELSE IF new.status \notin MessageStatuses THEN CheckError
    ELSE IF \/ new.property_id \notin Ids(properties)
            \/ new.seeker_id \notin Ids(profiles)
            \/ new.agent_id \notin Ids(profiles)
        THEN ForeignKeyError
    ELSE "ok"

UpdateMessageSet(a, mid, set) ==
    /\ Migrated
    /\ Session(a)
    /\ LET hit == {m \in messages : m.id = mid /\ SqlEq(a, m.agent_id) = "t"}
           new(m) == [c \in DOMAIN m |-> IF c \in DOMAIN set THEN set[c] ELSE m[c]]
           errs == {UpdateMessageError(a, new(m)) : m \in hit} \ {"ok"}
       IN  IF errs # {}
           THEN /\ last' = Outcome("update_message", a, CHOOSE e \in errs : TRUE, 0)
                /\ UNCHANGED messages
           ELSE /\ messages' = (messages \ hit) \cup {new(m) : m \in hit}
                /\ last' = Outcome("update_message", a, "ok", Cardinality(hit))
    /\ UNCHANGED <<schema, users, profiles, properties, photos, saved>>

\* The SET clauses a request may carry.
MessageSets ==
    {[status |-> "read"], [body |-> BlankBody], [body |-> NullText],
     [email |-> BadEmail], [phone |-> BadPhone]}
        \cup {[seeker_id |-> u] : u \in UserIds}
        \cup {[agent_id |-> u] : u \in UserIds}

-----------------------------------------------------------------------------
(* The texts the trigger is tried on: for each text column the values on   *)
(* both sides of every test of validate_message_seeker.                    *)

Repeat(c, n) == [i \in 1..n |-> c]

EmptyText == <<>>

TabBody == <<"\t">>
NewlineBody == <<"\n">>
PaddedBody == << " ", "h", "i", " " >>
FullBody == Repeat("x", MaxBodyLen)
LongBody == Repeat("x", MaxBodyLen + 1)

BodyCases ==
    {GoodBody, BlankBody, EmptyText, TabBody, NewlineBody, PaddedBody, FullBody,
     LongBody, NullText}

NotAnEmail == <<"n", "o", "t", "-", "a", "n", "-", "e", "m", "a", "i", "l">>
ShortTld == <<"a", "@", "b", ".", "c">>
NoLocal == <<"@", "b", ".", "c", "o">>
EmailTail == <<"@", "b", ".", "c", "o">>
FullEmail == Repeat("a", MaxEmailLen - Len(EmailTail)) \o EmailTail
LongEmail == Repeat("a", MaxEmailLen + 1 - Len(EmailTail)) \o EmailTail

EmailCases ==
    {NullText, EmptyText, GoodEmail, BadEmail, NotAnEmail, ShortTld, NoLocal,
     FullEmail, LongEmail}

SixDigits == <<"1", "2", "3", "4", "5", "6">>
FiveDigits == <<"1", "2", "3", "4", "5">>
FormattedPhone == <<"+", "2", "5", "4", " ", "(", "7", "0", "0", ")", " ", "1", "2", "3", "-", "4", "5", "6">>
LetterPhone == <<"1", "2", "3", "4", "5", "6", "a">>
DottedPhone == <<"1", "2", "3", ".", "4", "5", "6">>
InnerPlus == <<"1", "2", "3", "+", "4", "5", "6">>
SpacesPhone == << " ", " " >>
FullPhone == Repeat("1", MaxPhoneLen)
PlusFullPhone == <<"+">> \o Repeat("1", MaxPhoneDigits)
LongDigits == Repeat("1", MaxPhoneDigits + 1)
SpacedLong == SixDigits \o Repeat(" ", MaxPhoneLen + 1 - Len(SixDigits))

PhoneCases ==
    {NullText, EmptyText, SixDigits, FiveDigits, BadPhone, FormattedPhone,
     LetterPhone, DottedPhone, InnerPlus, SpacesPhone, FullPhone, PlusFullPhone,
     LongDigits, SpacedLong}

\* One column varied at a time around a valid row, and a row with every
\* text column invalid.
TextCases ==
    {[body |-> b, email |-> GoodEmail, phone |-> NullText] : b \in BodyCases}
        \cup {[body |-> GoodBody, email |-> e, phone |-> NullText] : e \in EmailCases}
        \cup {[body |-> GoodBody, email |-> NullText, phone |-> ph] : ph \in PhoneCases}
        \cup {[body |-> BlankBody, email |-> BadEmail, phone |-> BadPhone]}

TextPayloads ==
    {[id |-> 0, property_id |-> p, seeker_id |-> s, agent_id |-> g,
      body |-> c.body, email |-> c.email, phone |-> c.phone, status |-> "unread"] :
        p \in PropertyIds, s \in UserIds, g \in UserIds, c \in TextCases}

\* No insert into messages has been recorded.
NothingSent ==
    [id |-> 0, property_id |-> 0, seeker_id |-> NullId, agent_id |-> NullId,
     body |-> NullText, email |-> NullText, phone |-> NullText, status |-> "none"]

\* from('messages').insert(new), as a.  sent keeps the row, with the id it
\* was given when it was persisted.
PostMessage(a, new) ==
    /\ InsertMessage(a, new)
    /\ sent' = IF last'.err = "ok"
               THEN [new EXCEPT !.id = FreshId(MessageIds, messages)]
               ELSE new
    /\ UNCHANGED <<scenario, widgets, toast>>

-----------------------------------------------------------------------------
(* The save button.  PropertyCard and PropertyDetail each keep isSaved in  *)
(* component state and decide from it whether a click inserts or deletes.  *)

Widgets == {"PropertyCard", "PropertyDetail"}

\* A component that is not on screen.
Unmounted ==
    [mounted |-> FALSE, user |-> NullId, pid |-> 0, isSaved |-> FALSE,
     loading |-> FALSE, agent_id |-> NullId, agent |-> {}]

NoToast == [by |-> "none", text |-> "none"]

\* The toast.error texts of the two toggleSave handlers.
FailureToasts == {"Failed to save property", "Failed to remove from favourites"}

\* PropertyDetail.fetchProperty's second read, as uid:
\* from('profiles').select('*').eq('id', agent_id).single(); setAgent is
\* called only when the read returned its one row.
FetchAgent(uid, agent_id) ==
    LET rows == {r \in SelectProfiles(uid) : r.id = agent_id}
    IN  IF Cardinality(rows) = 1 THEN rows ELSE {}

\* The component is rendered for property p in the session of u:
\* useState(false).  The property came from a read of u; PropertyDetail
\* keeps the property's agent_id and the agent row it then read.  With a
\* user, the effect sends checkIfSaved's request: loading until it returns.
Mount(w, u, p) ==
    /\ Migrated
    /\ Session(u)
    /\ p \in Ids(SelectProperties(u))
    /\ LET prop == CHOOSE q \in properties : q.id = p
       IN  widgets' = [widgets EXCEPT ![w] =
                [mounted |-> TRUE, user |-> u, pid |-> p, isSaved |-> FALSE,
                 loading |-> u # NullId,
                 agent_id |-> prop.agent_id,
                 agent |-> IF w = "PropertyDetail"
                           THEN FetchAgent(u, prop.agent_id) ELSE {}]]
    /\ UNCHANGED <<schema, users, store, last, scenario, toast, sent>>

\* .select('id').eq('user_id', ...).eq('property_id', ...).single(): data is
\* the row when the read returns exactly one row, null otherwise.
SingleSaved(u, p) ==
    LET rows == {sp \in SelectSaved(u) : sp.user_id = u /\ sp.property_id = p}
    IN  Cardinality(rows) = 1

\* checkIfSaved: returns at once without a user.
CheckIfSaved(w) ==
    /\ widgets[w].mounted
    /\ widgets[w].user # NullId
    /\ widgets' = [widgets EXCEPT
            ![w].isSaved = SingleSaved(widgets[w].user, widgets[w].pid),
            ![w].loading = FALSE]
    /\ UNCHANGED <<schema, users, store, last, scenario, toast, sent>>

\* What toggleSave shows when its request returned an error: PropertyCard
\* calls toast.error, PropertyDetail has no else branch and shows nothing.
ErrorToast(w, text) ==
    IF w = "PropertyCard" THEN [by |-> w, text |-> text]
    ELSE [by |-> w, text |-> "none"]

\* toggleSave: the click on the heart of widget w.
ToggleSave(w) ==
    /\ widgets[w].mounted
    /\ LET u == widgets[w].user
           p == widgets[w].pid
       IN  IF u = NullId
           THEN /\ toast' = [by |-> w, text |-> "Please sign in to save properties"]
                /\ UNCHANGED <<schema, users, store, last, widgets>>
           ELSE IF widgets[w].isSaved
           THEN /\ DeleteSaved(u, u, p)
                /\ IF last'.err = "ok"
                   THEN /\ widgets' = [widgets EXCEPT ![w].isSaved = FALSE]
                        /\ toast' = [by |-> w, text |-> "Removed from favourites"]
                   ELSE /\ toast' = ErrorToast(w, "Failed to remove from favourites")
                        /\ UNCHANGED widgets
           ELSE /\ InsertSaved(u, u, p)
                /\ IF last'.err = "ok"
                   THEN /\ widgets' = [widgets EXCEPT ![w].isSaved = TRUE]
                        /\ toast' = [by |-> w, text |-> "Added to favourites"]
                   ELSE /\ toast' = ErrorToast(w, "Failed to save property")
                        /\ UNCHANGED widgets
    /\ UNCHANGED <<scenario, sent>>

\* String.prototype.trim() leaves nothing: every character is white space.
JsBlank(s) == \A i \in 1..Len(s) : s[i] \in {" ", "\t", "\n"}

\* What the visitor typed in the contact form: message, email, phone.
FormInputs ==
    {[message |-> m, contactEmail |-> e, contactPhone |-> EmptyText] :
        m \in {GoodBody, EmptyText, TabBody}, e \in {EmptyText, GoodEmail}}

\* The "Contact Agent" card, and the form in it, is rendered only when the
\* agent row was loaded: {agent && (...)}.
ContactFormOffered(w) == widgets[w].mounted /\ widgets[w].agent # {}

\* PropertyDetail.handleSendMessage: the submit of the contact form.
HandleSendMessage(w, form) ==
    /\ w = "PropertyDetail"
    /\ ContactFormOffered(w)
    /\ LET u == widgets[w].user
           new == [id |-> 0, property_id |-> widgets[w].pid, seeker_id |-> u,
                   agent_id |-> widgets[w].agent_id, body |-> form.message,
                   email |-> IF form.contactEmail = EmptyText
                             THEN UserEmail(u) ELSE form.contactEmail,
                   phone |-> form.contactPhone, status |-> "unread"]
       IN  IF u = NullId
           THEN /\ toast' = [by |-> w, text |-> "Please sign in to contact the agent"]
                /\ UNCHANGED <<schema, users, store, last, sent>>
           ELSE IF JsBlank(form.message)
           THEN /\ toast' = [by |-> w, text |-> "Please enter a message"]
                /\ UNCHANGED <<schema, users, store, last, sent>>
           ELSE /\ InsertMessage(u, new)
                /\ sent' = IF last'.err = "ok"
                           THEN [new EXCEPT !.id = FreshId(MessageIds, messages)]
                           ELSE new
                /\ toast' = IF last'.err = "ok"
                            THEN [by |-> w, text |-> "Message sent successfully!"]
                            ELSE [by |-> w, text |-> "Failed to send message"]
    /\ UNCHANGED <<scenario, widgets>>

-----------------------------------------------------------------------------
(* The pages that write properties: CreateProperty and AgentDashboard; and *)
(* Home, which lists them.                                                 *)

\* A create branch that publishes at once.
PublishedOnCreate == "published"

\* The status the create branch of onSubmit sends.
StatusOnCreate == "draft"

\* CreateProperty.onSubmit without a propertyId: the insert of the property,
\* then uploadImages for the one image the form requires at least.
OnSubmitCreate(a) ==
    /\ Migrated
    /\ a \in Ids(profiles)
    /\ Ids(properties) # PropertyIds
    /\ Ids(photos) # PhotoIds
    /\ LET err == InsertPropertyError(a, a, StatusOnCreate)
           pid == FreshId(PropertyIds, properties)
       IN  IF err # "ok"
           THEN /\ last' = Outcome("insert_property", a, err, 0)
                /\ UNCHANGED <<properties, photos>>
           ELSE /\ properties' = properties \cup
                        {[id |-> pid, agent_id |-> a, status |-> StatusOnCreate]}
                /\ photos' = photos \cup
                        {[id |-> FreshId(PhotoIds, photos), property_id |-> pid]}
                /\ last' = Outcome("insert_photo", a, "ok", 1)
    /\ UNCHANGED <<schema, users, profiles, saved, messages>>

\* CreateProperty.onSubmit with a propertyId: the update names title,
\* description, price, beds, baths, area_sqft, address, city, region and
\* for_rent, so the columns kept here stay as they are; then the photos
\* marked in the form are deleted, and a new image, if any, is uploaded.
OnSubmitUpdate(a, pid, del, upload) ==
    /\ Migrated
    /\ a \in Ids(profiles)
    /\ LET hit == {p \in properties : p.id = pid /\ PropertyWritable(a, p)}
           kept == {ph \in photos :
                        ~(ph.id \in del /\ PhotoWritable(a, ph.property_id))}
       IN  /\ Cardinality({ph \in kept : ph.property_id = pid}) + (IF upload THEN 1 ELSE 0) > 0
           /\ upload => Ids(kept) # PhotoIds
           /\ IF ~upload
              THEN /\ photos' = kept
                   /\ last' = Outcome("update_property", a, "ok", Cardinality(hit))
              ELSE IF ~PhotoWritable(a, pid)
              THEN /\ photos' = kept
                   /\ last' = Outcome("insert_photo", a, RlsError, 0)
              ELSE /\ photos' = kept \cup
                            {[id |-> FreshId(PhotoIds, kept), property_id |-> pid]}
                   /\ last' = Outcome("insert_photo", a, "ok", 1)
    /\ UNCHANGED <<schema, users, profiles, properties, saved, messages>>

\* AgentDashboard.handleDelete; the page sends users who are not agents away.
HandleDelete(a, pid) ==
    /\ \E r \in profiles : r.id = a /\ r.role = "agent"
    /\ DeleteProperty(a, pid)

\* A dashboard read whose embedded saved_properties bypass row security.
FetchPropertiesAllSaves(uid) ==
    {[id |-> p.id, agent_id |-> p.agent_id, status |-> p.status,
      saves_count |-> Cardinality({sp \in saved : sp.property_id = p.id})] :
        p \in {q \in SelectProperties(uid) : q.agent_id = uid}}

\* AgentDashboard.fetchProperties, as uid:
\* select('*, property_photos(thumb_path), saved_properties(id)')
\* .eq('agent_id', user.id); saves_count is the length of the embedded
\* saved_properties, which are read as uid like any other select.
DashboardFetchProperties(uid) ==
    {[id |-> p.id, agent_id |-> p.agent_id, status |-> p.status,
      saves_count |-> Cardinality({sp \in SelectSaved(uid) : sp.property_id = p.id})] :
        p \in {q \in SelectProperties(uid) : q.agent_id = uid}}

\* Home.fetchProperties, as uid: .eq('status', 'published').
HomeFetchProperties(uid) == {p \in SelectProperties(uid) : p.status = "published"}

-----------------------------------------------------------------------------
(* Applying the migration scripts, one after the other.                    *)

Migrate ==
    /\ applied < NMigrations
    /\ applied' = applied + 1
    /\ LET s == RunMigration(MigrationOrder[applied + 1],
                             [policies |-> policies, view |-> view])
       IN  /\ policies' = s.policies
           /\ view' = s.view
    /\ UNCHANGED <<users, store, last>>

\* An empty database, before the first migration.
Init ==
    /\ applied = 0
    /\ policies = {}
    /\ view = NoView
    /\ users = {}
    /\ profiles = {}
    /\ properties = {}
    /\ photos = {}
    /\ saved = {}
    /\ messages = {}
    /\ last = Outcome("none", NullId, "ok", 0)
    /\ scenario = [pc |-> "idle", agent |-> NullId, pid |-> 0, obs |-> <<>>]
    /\ widgets = [w \in Widgets |-> Unmounted]
    /\ toast = NoToast
    /\ sent = NothingSent

-----------------------------------------------------------------------------
(* The listing walk-through: an agent creates a draft through the create   *)
(* form, an anonymous visitor lists, the agent lists its own, the agent    *)
(* publishes, the visitor lists again.  obs records whether the property   *)
(* was in each list.                                                       *)

\* CreateProperty.onSubmit, create branch: agent_id = user.id, status 'draft'.
AgentCreatesDraft(a) ==
    /\ scenario.pc = "idle"
    /\ a \in Ids(profiles)
    /\ InsertProperty(a, a, "draft")
    /\ last'.err = "ok"
    /\ scenario' = [pc |-> "created", agent |-> a,
                    pid |-> FreshId(PropertyIds, properties), obs |-> <<>>]
    /\ UNCHANGED <<widgets, toast, sent>>

\* from('properties').select(), without a session.
AnonymousLists(from, to) ==
    /\ scenario.pc = from
    /\ scenario' = [scenario EXCEPT
            !.pc = to,
            !.obs = Append(@, scenario.pid \in Ids(SelectProperties(NullId)))]
    /\ UNCHANGED <<schema, users, store, last, widgets, toast, sent>>

\* AgentDashboard.fetchProperties: .eq('agent_id', user.id)
AgentLists ==
    /\ scenario.pc = "listed"
    /\ scenario' = [scenario EXCEPT
            !.pc = "own_listed",
            !.obs = Append(@, scenario.pid \in
                        Ids({p \in SelectProperties(scenario.agent) :
                                p.agent_id = scenario.agent}))]
    /\ UNCHANGED <<schema, users, store, last, widgets, toast, sent>>

\* update properties set status = 'published' where id = pid, as the agent.
AgentPublishes ==
    /\ scenario.pc = "own_listed"
    /\ UpdateProperty(scenario.agent, scenario.pid, scenario.agent, "published")
    /\ scenario' = [scenario EXCEPT !.pc = "published"]
    /\ UNCHANGED <<widgets, toast, sent>>

-----------------------------------------------------------------------------
(* The requests actor a can send through the data API, by table.           *)

ProfileRequest(a) ==
    \E t \in UserIds, r \in MetaRoles \ {"NULL"} :
        UpdateProfile(a, t, r) /\ UNCHANGED client

PropertyRequest(a) ==
    \/ \E o \in Actors, st \in PayloadStatuses :
            InsertProperty(a, o, st) /\ UNCHANGED client
    \/ \E p \in PropertyIds, o \in Actors, st \in PayloadStatuses \ {"NULL"} :
            UpdateProperty(a, p, o, st) /\ UNCHANGED client
    \/ \E p \in PropertyIds : DeleteProperty(a, p) /\ UNCHANGED client

PhotoRequest(a) ==
    \/ \E p \in PropertyIds : InsertPhoto(a, p) /\ UNCHANGED client
    \/ \E ph \in PhotoIds : DeletePhoto(a, ph) /\ UNCHANGED client

SavedRequest(a) ==
    \/ \E u \in Actors, p \in PropertyIds : InsertSaved(a, u, p) /\ UNCHANGED client
    \/ \E u \in UserIds, p \in PropertyIds : DeleteSaved(a, u, p) /\ UNCHANGED client

MessageRequest(a) ==
    \/ \E new \in MessagePayloads : InsertMessage(a, new) /\ UNCHANGED client
    \/ \E m \in MessageIds, st \in MessageStatuses :
            UpdateMessage(a, m, st) /\ UNCHANGED client

Request(a) ==
    \/ ProfileRequest(a)
    \/ PropertyRequest(a)
    \/ PhotoRequest(a)
    \/ SavedRequest(a)
    \/ MessageRequest(a)

Register == \E u \in UserIds, r \in MetaRoles : SignUp(u, r) /\ UNCHANGED client

Deploy == Migrate /\ UNCHANGED client

\* The whole system.
Next ==
    \/ Deploy
    \/ Register
    \/ \E a \in Actors : Request(a)

Spec == Init /\ [][Next]_vars

\* The system restricted to the requests on one group of tables (and the
\* sign-ups and property writes their rows depend on).
NextProfiles ==
    \/ Deploy
    \/ Register
    \/ \E a \in Actors : ProfileRequest(a)

SpecProfiles == Init /\ [][NextProfiles]_vars

NextListings ==
    \/ Deploy
    \/ Register
    \/ \E a \in Actors : PropertyRequest(a)
    \/ \E a \in Actors : PhotoRequest(a)

SpecListings == Init /\ [][NextListings]_vars

NextSaved ==
    \/ Deploy
    \/ Register
    \/ \E a \in Actors : PropertyRequest(a)
    \/ \E a \in Actors : SavedRequest(a)

SpecSaved == Init /\ [][NextSaved]_vars

NextMessages ==
    \/ Deploy
    \/ Register
    \/ \E a \in Actors : PropertyRequest(a)
    \/ \E a \in Actors : MessageRequest(a)

SpecMessages == Init /\ [][NextMessages]_vars

\* The save buttons of the two components, among agents who list and
\* withdraw their properties.
NextFavourites ==
    \/ Deploy
    \/ Register
    \/ \E a \in UserIds, st \in PropertyStatuses :
            InsertProperty(a, a, st) /\ UNCHANGED client
    \/ \E a \in UserIds, p \in PropertyIds : DeleteProperty(a, p) /\ UNCHANGED client
    \/ \E w \in Widgets, u \in Actors, p \in PropertyIds : Mount(w, u, p)
    \/ \E w \in Widgets : CheckIfSaved(w)
    \/ \E w \in Widgets : ToggleSave(w)

SpecFavourites == Init /\ [][NextFavourites]_vars

\* Message inserts of signed-in users with every text case, among agents who
\* list and withdraw their properties.
NextTexts ==
    \/ Deploy
    \/ \E u \in UserIds : SignUp(u, "NULL") /\ UNCHANGED client
    \/ \E a \in UserIds, st \in PropertyStatuses :
            InsertProperty(a, a, st) /\ UNCHANGED client
    \/ \E a \in UserIds, p \in PropertyIds : DeleteProperty(a, p) /\ UNCHANGED client
    \/ \E a \in UserIds, new \in TextPayloads : PostMessage(a, new)

SpecTexts == Init /\ [][NextTexts]_vars

\* Every table that references properties, among the property writes.
NextCascade ==
    \/ Deploy
    \/ \E u \in UserIds : SignUp(u, "NULL") /\ UNCHANGED client
    \/ \E a \in Actors : PropertyRequest(a)
    \/ \E a \in Actors : PhotoRequest(a)
    \/ \E a \in Actors : SavedRequest(a)
    \/ \E a \in Actors, new \in {m \in MessagePayloads : m.email = NullText} :
            PostMessage(a, new)

SpecCascade == Init /\ [][NextCascade]_vars

\* Sign-ups with every metadata role, and the profile inserts of every actor.
NextRegistrations ==
    \/ Deploy
    \/ Register
    \/ \E a \in Actors, id \in UserIds, r \in Roles :
            InsertProfile(a, id, r) /\ UNCHANGED client
    \/ \E a \in UserIds, st \in PropertyStatuses :
            InsertProperty(a, a, st) /\ UNCHANGED client

SpecRegistrations == Init /\ [][NextRegistrations]_vars

\* The messages of signed-in users and what their agents then update.
NextInbox ==
    \/ Deploy
    \/ \E u \in UserIds : SignUp(u, "NULL") /\ UNCHANGED client
    \/ \E a \in UserIds, st \in PropertyStatuses :
            InsertProperty(a, a, st) /\ UNCHANGED client
    \/ \E a \in UserIds, new \in MessagePayloads : PostMessage(a, new)
    \/ \E a \in Actors, m \in MessageIds, set \in MessageSets :
            UpdateMessageSet(a, m, set) /\ UNCHANGED client

SpecInbox == Init /\ [][NextInbox]_vars

\* What the pages of the application send, and nothing else.
NextPages ==
    \/ Deploy
    \/ \E u \in UserIds, r \in {"seeker", "agent"} : SignUp(u, r) /\ UNCHANGED client
    \/ \E a \in UserIds : OnSubmitCreate(a) /\ UNCHANGED client
    \/ \E a \in UserIds, p \in PropertyIds, del \in SUBSET PhotoIds, upload \in BOOLEAN :
            OnSubmitUpdate(a, p, del, upload) /\ UNCHANGED client
    \/ \E a \in UserIds, p \in PropertyIds : HandleDelete(a, p) /\ UNCHANGED client
    \/ \E u \in Actors, p \in PropertyIds : Mount("PropertyDetail", u, p)
    \/ CheckIfSaved("PropertyDetail")
    \/ ToggleSave("PropertyDetail")
    \/ \E form \in FormInputs : HandleSendMessage("PropertyDetail", form)

SpecPages == Init /\ [][NextPages]_vars

\* Visitors open the detail page of properties and submit its contact form.
NextInquiry ==
    \/ Deploy
    \/ \E u \in UserIds, r \in {"NULL", "agent"} : SignUp(u, r) /\ UNCHANGED client
    \/ \E a \in UserIds, st \in PropertyStatuses :
            InsertProperty(a, a, st) /\ UNCHANGED client
    \/ \E u \in Actors, p \in PropertyIds : Mount("PropertyDetail", u, p)
    \/ \E form \in FormInputs : HandleSendMessage("PropertyDetail", form)

SpecInquiry == Init /\ [][NextInquiry]_vars

\* The walk-through, among the listing requests of every other actor.
NextScenario ==
    \/ Deploy
    \/ Register
    \/ \E a \in UserIds : AgentCreatesDraft(a)
    \/ AnonymousLists("created", "listed")
    \/ AgentLists
    \/ AgentPublishes
    \/ AnonymousLists("published", "done")
    \/ \E b \in Actors \ {scenario.agent} : PropertyRequest(b)
    \/ \E b \in Actors \ {scenario.agent} : PhotoRequest(b)

SpecScenario == Init /\ [][NextScenario]_vars

-----------------------------------------------------------------------------
(* Profile reads (C1 - C3), under SpecProfiles.                            *)

\* The rows about profile P that actor A gets from the table and the view.
TableRowsOf(A, P) == {r \in SelectProfiles(A) : r.id = P.id}
ViewRowsOf(A, P) == {r \in SelectPublicAgentProfiles(A) : r.id = P.id}

Private(r) == {"email", "phone"} \cap DOMAIN r # {}

\* C1: with every migration applied, no read of another actor, on the
\* profiles table or on the public_agent_profiles view, returns a profile's
\* email or phone, and none returns any column of a profile that is not an
\* agent's.
C1_NoPrivateColumnToOthers ==
    Migrated =>
        \A A \in Actors : \A P \in profiles :
            (Session(A) /\ A # P.id) =>
                \A r \in TableRowsOf(A, P) \cup ViewRowsOf(A, P) :
                    ~Private(r) /\ P.role = "agent"

\* C2: with every migration applied, the public_agent_profiles view gives
\* every other actor, anonymous or signed in, the row of every agent with
\* exactly the columns id, name, role, verified, created_at, and no row of a
\* profile that is not an agent's.
C2_ViewShowsAgentsToEveryone ==
    Migrated =>
        \A A \in Actors : \A P \in profiles :
            (Session(A) /\ A # P.id) =>
                IF P.role = "agent"
                THEN ViewRowsOf(A, P) = {Project(P, ViewColumns)}
                ELSE ViewRowsOf(A, P) = {}

\* C3: the actor whose id is the profile's id reads the whole row from the
\* profiles table, email and phone included, whatever the role.
C3_OwnerReadsFullProfile ==
    \A P \in profiles :
        \E r \in SelectProfiles(P.id) :
            /\ r = P
            /\ DOMAIN r = ProfileColumns
            /\ r.email = UserEmail(P.id)

\* A seeker and an agent, each reading its own row after the last migration.
C3_Witness ==
    /\ Migrated
    /\ \E P \in profiles : P.role = "seeker" /\ P \in SelectProfiles(P.id)
    /\ \E P \in profiles : P.role = "agent" /\ P \in SelectProfiles(P.id)

-----------------------------------------------------------------------------
(* Property and photo reads (C4, C5, C8).                                  *)

\* C4: a property is in the result of actor A's read exactly when it is
\* published or A is its agent: a draft or archived property is absent for
\* every other actor, the anonymous one included, and its agent sees it
\* whatever its status.
C4_PropertyVisibleIffPublishedOrOwn ==
    \A A \in Actors : Session(A) =>
        \A p \in properties :
            p \in SelectProperties(A) <=> (p.status = "published" \/ A = p.agent_id)

\* A draft that its agent reads, and that neither the anonymous actor nor
\* another signed-in actor reads.
C4_Witness ==
    \E p \in properties : \E B \in Ids(profiles) :
        /\ p.status = "draft"
        /\ B # p.agent_id
        /\ p \in SelectProperties(p.agent_id)
        /\ p \notin SelectProperties(B)
        /\ p \notin SelectProperties(NullId)

\* C5: in the walk-through (draft created, anonymous list, agent's own list,
\* publish, anonymous list) the property is absent from the first anonymous
\* list, present in the agent's list and present in the second anonymous list.
C5_DraftHiddenThenPublished ==
    scenario.pc = "done" => scenario.obs = <<FALSE, TRUE, TRUE>>

\* The walk-through has run to its end, the property still being there.
C5_Witness ==
    /\ scenario.pc = "done"
    /\ Len(scenario.obs) = 3
    /\ \E p \in properties :
        p.id = scenario.pid /\ p.agent_id = scenario.agent /\ p.status = "published"

\* C8: a photo is in the result of actor A's read exactly when its parent
\* property is visible to A (published, or A is the parent's agent).
C8_PhotoVisibleIffParentVisible ==
    \A A \in Actors : Session(A) =>
        \A ph \in photos :
            ph \in SelectPhotos(A) <=>
                \E p \in properties :
                    /\ p.id = ph.property_id
                    /\ (p.status = "published" \/ p.agent_id = A)

\* A photo of a draft: read by the agent, not by the anonymous actor.
C8_Witness ==
    \E ph \in photos : \E p \in properties :
        /\ p.id = ph.property_id
        /\ p.status = "draft"
        /\ ph \in SelectPhotos(p.agent_id)
        /\ ph \notin SelectPhotos(NullId)

-----------------------------------------------------------------------------
(* Saved properties and messages (C6, C7, C9, C10).                        *)

\* C6: a message is in the result of actor A's read exactly when A is its
\* agent or its seeker; no third actor and no anonymous actor reads it.
C6_MessageVisibleToItsParties ==
    \A A \in Actors : Session(A) =>
        \A m \in messages :
            m \in SelectMessages(A) <=> (A = m.agent_id \/ A = m.seeker_id)

\* A message its seeker reads, with a signed-in third actor who does not.
C6_Witness ==
    \E m \in messages : \E B \in Ids(profiles) :
        /\ B \notin {m.agent_id, m.seeker_id}
        /\ m \in SelectMessages(m.seeker_id)
        /\ m \in SelectMessages(m.agent_id)
        /\ m \notin SelectMessages(B)
        /\ m \notin SelectMessages(NullId)

\* C7: a saved property is in the result of actor A's read exactly when A is
\* its user; the agent of the saved property does not read another user's
\* save.
C7_SavedVisibleToItsUser ==
    \A A \in Actors : Session(A) =>
        \A sp \in saved : sp \in SelectSaved(A) <=> A = sp.user_id

\* A save of another agent's property: its user reads it, the agent does not.
C7_Witness ==
    \E sp \in saved : \E p \in properties :
        /\ p.id = sp.property_id
        /\ p.agent_id # sp.user_id
        /\ sp \in SelectSaved(sp.user_id)
        /\ sp \notin SelectSaved(p.agent_id)

\* C9: a message insert whose seeker_id is not the id of the acting actor,
\* or whose actor is anonymous, ends in an error and persists no row.
C9_SeekerMismatchRejected ==
    [][last'.op = "insert_message" =>
         \A a \in {last'.actor} : \A new \in MessagePayloads :
            ((a = NullId \/ new.seeker_id # a) /\ InsertMessage(a, new)) =>
                (messages' = messages /\ last'.err # "ok")]_vars

\* A signed-in actor's insert was refused for naming another seeker, with a
\* row that would otherwise have been accepted.
C9_Witness ==
    /\ last.op = "insert_message"
    /\ last.actor \in Ids(profiles)
    /\ last.err = "seeker_id must match authenticated user"
    /\ properties # {}
    /\ messages = {}

\* C10: the agent_id of every persisted message is the agent_id of the
\* property the message references.
C10_MessageAgentIsPropertyAgent ==
    \A m \in messages :
        \E p \in properties : p.id = m.property_id /\ p.agent_id = m.agent_id

-----------------------------------------------------------------------------
(* Roles (C11, C12).                                                       *)

\* C11: the agent_id of every property is the id of a profile whose role is
\* agent; a property inserted by a signed-in seeker is not persisted.
C11_PropertyAgentHasAgentRole ==
    \A p \in properties :
        \E P \in profiles : P.id = p.agent_id /\ P.role = "agent"


\* C12: no step changes the role of an existing profile: the role a profile
\* has after any write is the role it had before it.
C12_RoleNeverChanges ==
    [][\A P \in profiles : \A Q \in profiles' : Q.id = P.id => Q.role = P.role]_vars

-----------------------------------------------------------------------------
(* Saving a property (C13, C14).                                           *)

\* C13: the store holds at most one saved_properties row for each
\* (user_id, property_id) pair, whatever inserts and deletes came before,
\* and an insert refused as a duplicate wrote no row.
C13_OneSavedRowPerPair ==
    /\ \A sp1 \in saved : \A sp2 \in saved :
            (sp1.user_id = sp2.user_id /\ sp1.property_id = sp2.property_id) => sp1 = sp2
    /\ (last.op = "insert_saved" /\ last.err = UniqueError) => last.rows = 0

\* A second insert of a pair already in the store was refused as a duplicate,
\* while the table still had room for another row.
C13_Witness ==
    /\ last.op = "insert_saved"
    /\ last.err = UniqueError
    /\ Ids(saved) # SavedIds
    /\ \E sp \in saved : sp.user_id = last.actor

\* C14: a toggleSave whose insert is refused because the pair is already in
\* the store ends with isSaved = true and shows the user no failure.
C14_DuplicateSaveIsBenign ==
    [][\A w \in Widgets :
         (ToggleSave(w) /\ last'.op = "insert_saved" /\ last'.err = UniqueError) =>
            (widgets'[w].isSaved /\ toast'.text \notin FailureToasts)]_vars

-----------------------------------------------------------------------------
(* Denied writes (C15).                                                    *)

\* C15: an update or a delete of a property by an actor who is not its
\* agent ends in an error and leaves every table as it was.
C15_DeniedWriteIsAnError ==
    [][last'.op \in {"update_property", "delete_property"} =>
         \A a \in {last'.actor} : \A pid \in PropertyIds :
            (/\ \E p \in properties : p.id = pid /\ ~PropertyWritable(a, p)
             /\ \/ DeleteProperty(a, pid)
                \/ \E o \in Actors, st \in PropertyStatuses :
                        UpdateProperty(a, pid, o, st))
            => (last'.err # "ok" /\ UNCHANGED store)]_vars

-----------------------------------------------------------------------------
(* The trigger's text checks (C16 - C19), under SpecTexts.                 *)

BodyErrors == {"Message body cannot be empty", "Message must be less than 5000 characters"}

\* C16: an insert whose body is empty after trimming spaces, tabs and
\* newlines, or longer than 5000 characters, is rejected; an insert whose
\* trimmed body is not empty and whose body has at most 5000 characters is
\* not rejected for its body.
C16_BodyValidated ==
    LET Whitespace == {" ", "\t", "\n"}
        BlankAfterTrim(s) == \A k \in 1..Len(s) : s[k] \in Whitespace
    IN  (last.op = "insert_message" /\ sent.status # "none" /\ sent.body # NullText) =>
            IF BlankAfterTrim(sent.body) \/ Len(sent.body) > MaxBodyLen
            THEN last.err # "ok"
            ELSE last.err \notin BodyErrors

\* C17: an insert with a non-empty phone is accepted only if the phone,
\* with its spaces, dashes and parentheses (and nothing else) removed, is an
\* optional plus followed by 6 to 20 digits, and the phone as sent has at most
\* 20 characters.
C17_PhoneValidated ==
    LET Removable == {" ", "-", "(", ")"}
        Stripped(s) == SelectSeq(s, LAMBDA c : c \notin Removable)
    IN  (/\ last.op = "insert_message"
         /\ last.err = "ok"
         /\ sent.status # "none"
         /\ sent.phone \notin {NullText, EmptyText}) =>
            /\ MatchesPhone(Stripped(sent.phone))
            /\ Len(sent.phone) <= MaxPhoneLen

EmailErrors == {"Invalid email format", "Email must be less than 255 characters"}

\* C18: an insert with a non-empty email is accepted only if the email has
\* the shape local@domain.tld (local part and domain not empty, a top-level
\* name of two letters or more) and at most 255 characters; "not-an-email"
\* is rejected, "a@b.co" is not rejected for its email, and an absent or
\* empty email is never the reason of a rejection.
C18_EmailValidated ==
    LET Local == Letters \cup Digits \cup {".", "_", "%", "+", "-"}
        Domain == Letters \cup Digits \cup {".", "-"}
        Shape(s) ==
            \E i \in 2..Len(s) :
                /\ s[i] = "@"
                /\ \A k \in 1..(i - 1) : s[k] \in Local
                /\ \E j \in (i + 2)..(Len(s) - 2) :
                        /\ s[j] = "."
                        /\ \A k \in (i + 1)..(j - 1) : s[k] \in Domain
                        /\ \A k \in (j + 1)..Len(s) : s[k] \in Letters
    IN  (last.op = "insert_message" /\ sent.status # "none") =>
            /\ (last.err = "ok" /\ sent.email \notin {NullText, EmptyText}) =>
                    (Shape(sent.email) /\ Len(sent.email) <= MaxEmailLen)
            /\ sent.email \in {NullText, EmptyText} => last.err \notin EmailErrors
            /\ sent.email = NotAnEmail => last.err # "ok"
            /\ sent.email = GoodEmail => last.err \notin EmailErrors

\* A well-formed row was refused for its email alone: "not-an-email".
C18_Witness ==
    /\ last.op = "insert_message"
    /\ last.err = "Invalid email format"
    /\ sent.email = NotAnEmail
    /\ sent.seeker_id = last.actor
    /\ sent.property_id \in Ids(properties)
    /\ messages = {}

-----------------------------------------------------------------------------
(* Deleting a property (C20), under SpecCascade.                           *)

\* C20: the property_id of every photo, every saved property and every
\* message is the id of a property in the store; in particular nothing refers
\* to a property once it has been deleted.
C20_NoDanglingPropertyReference ==
    /\ \A ph \in photos : ph.property_id \in Ids(properties)
    /\ \A sp \in saved : sp.property_id \in Ids(properties)
    /\ \A m \in messages : m.property_id \in Ids(properties)

\* The message that was last persisted is gone with its property, which its
\* agent has just deleted.
C20_Witness ==
    /\ last.op = "delete_property"
    /\ last.rows = 1
    /\ sent.id # 0
    /\ sent.property_id \notin Ids(properties)
    /\ sent \notin messages

-----------------------------------------------------------------------------
(* The anonymous actor (C21, C22).                                         *)

\* C21: a request without a session writes no row, and its reads return
\* only published properties and their photos, no saved property, no message,
\* and of profiles only agents' rows without email and phone.
C21_AnonymousIsReadOnlyAndPublic ==
    Migrated =>
        /\ (last.actor = NullId /\ last.op \notin {"none", "signup"}) => last.rows = 0
        /\ \A p \in SelectProperties(NullId) : p.status = "published"
        /\ \A ph \in SelectPhotos(NullId) :
                \E p \in properties : p.id = ph.property_id /\ p.status = "published"
        /\ SelectSaved(NullId) = {}
        /\ SelectMessages(NullId) = {}
        /\ \A r \in SelectProfiles(NullId) \cup SelectPublicAgentProfiles(NullId) :
                r.role = "agent" /\ ~Private(r)

\* An id no property ever takes: the absent case of a read by id.
AbsentId == MaxProperties + 1

\* C22: for every actor A and property id x, fetchProperty by A returns the
\* same "not found" result, with no row and no photo, when x names no property
\* and when x names a property that is neither published nor A's own.
C22_AbsentAndInvisibleReadAlike ==
    Migrated =>
        \A A \in Actors : \A x \in PropertyIds \cup {AbsentId} :
            LET Absent == x \notin Ids(properties)
                Invisible == \E p \in properties :
                                /\ p.id = x
                                /\ p.status # "published"
                                /\ (A = NullId \/ p.agent_id # A)
            IN  (Absent \/ Invisible) =>
                    /\ FetchProperty(A, x) = NotFound
                    /\ FetchProperty(A, x) = FetchProperty(A, AbsentId)
                    /\ {ph \in SelectPhotos(A) : ph.property_id = x} = {}

\* A signed-in user other than the owner reads a draft that has a photo, and
\* an id that names nothing.
C22_Witness ==
    /\ Migrated
    /\ \E p \in properties : \E ph \in photos : \E A \in Ids(profiles) :
        /\ p.status = "draft" /\ p.agent_id # A /\ ph.property_id = p.id
        /\ FetchProperty(p.agent_id, p.id) # NotFound
        /\ FetchProperty(A, p.id) = NotFound
        /\ FetchProperty(A, AbsentId) = NotFound

-----------------------------------------------------------------------------
(* The contact form of the detail page (C23).                              *)

\* C23: whenever the detail page of a published property is open in the
\* session of a signed-in user whose role is not agent, the agent's details
\* have loaded and the contact form is offered.
C23_SeekerIsOfferedContactForm ==
    LET w == widgets["PropertyDetail"]
    IN  (/\ w.mounted
         /\ \E u \in profiles : u.id = w.user /\ u.role # "agent"
         /\ \E p \in properties : p.id = w.pid /\ p.status = "published")
            => ContactFormOffered("PropertyDetail")

-----------------------------------------------------------------------------
(* Registration (C24, C30).                                                *)

\* C24: after any sequence of sign-ups, every registered identity has exactly
\* one profile, whose id is the identity and whose role is the role of the
\* sign-up metadata, or seeker when the metadata has none; and every profile
\* is the profile of a registered identity.
C24_OneProfilePerIdentity ==
    /\ \A u \in users :
        /\ Cardinality({r \in profiles : r.id = u.id}) = 1
        /\ \A r \in profiles :
            r.id = u.id => r.role = (IF u.role = "NULL" THEN "seeker" ELSE u.role)
    /\ Ids(profiles) = Ids(users)

\* Two identities are registered, one naming the role agent and one naming
\* no role, and the second has since tried to insert a profile of its own.
C24_Witness ==
    /\ \E u \in users : u.role = "agent"
    /\ \E u \in users : u.role = "NULL" /\ last.actor = u.id
    /\ last.op = "insert_profile"

\* C30: no sign-up leaves a profile whose role is admin, whatever role its
\* metadata names: the role of every profile a sign-up created is seeker or
\* agent.
C30_NoSelfRegisteredAdmin ==
    \A u \in users : \A r \in profiles :
        r.id = u.id => r.role \in {"seeker", "agent"}

-----------------------------------------------------------------------------
(* Updates of a message by its agent (C25).                                *)

\* C25: an update of a message by its agent changes the status only, so
\* every persisted message is the row that was inserted, but for its status,
\* and still passes the validation of its insert.
C25_PersistedMessageStaysValid ==
    \A m \in messages :
        /\ ValidateMessageSeeker(m.seeker_id, m) = "ok"
        /\ (sent.id = m.id => m = [sent EXCEPT !.status = m.status])

-----------------------------------------------------------------------------
(* The heart of two components on the same property (C26).                 *)

\* C26: for every mounted component of a signed-in user, once its
\* checkIfSaved has returned and no toggleSave of it is running, isSaved
\* tells whether the store holds the user's saved row for the property.
C26_IsSavedMatchesStore ==
    \A w \in Widgets :
        (widgets[w].mounted /\ widgets[w].user # NullId /\ ~widgets[w].loading) =>
            (widgets[w].isSaved <=>
                \E sp \in saved : /\ sp.user_id = widgets[w].user
                                  /\ sp.property_id = widgets[w].pid)

-----------------------------------------------------------------------------
(* Saving a property the actor cannot see (C29).                           *)

\* C29: every saved row of a user names a property that is visible to that
\* user: an insert naming another agent's draft or archived property is
\* refused as one naming no property is.
C29_SavedPropertyIsVisible ==
    \A sp \in saved : sp.property_id \in Ids(SelectProperties(sp.user_id))

-----------------------------------------------------------------------------
(* The status of a property created through the pages (C27).               *)

\* C27: among the requests the pages send, every property has the status
\* draft, the one its insert gave it, and Home.fetchProperties returns no
\* property to any actor.
C27_CreatedPropertyStaysDraft ==
    /\ \A p \in properties : p.status = "draft"
    /\ \A A \in Actors : HomeFetchProperties(A) = {}

\* A property created through the form has been saved again through the
\* update branch by its agent, with its photo replaced, while it was open in
\* PropertyDetail.
C27_Witness ==
    /\ \E p \in properties : \E ph \in photos :
        /\ ph.property_id = p.id
        /\ last = Outcome("insert_photo", p.agent_id, "ok", 1)
        /\ widgets["PropertyDetail"].mounted
        /\ widgets["PropertyDetail"].pid = p.id
        /\ widgets["PropertyDetail"].isSaved

-----------------------------------------------------------------------------
(* The saves shown on the dashboard (C28).                                 *)

\* C28: the saves_count the dashboard of an agent shows for a property is
\* the number of saved rows of that property whose user is the agent: at
\* most 1, and 0 when only other users saved the property.
C28_SavesCountIsOwnSaves ==
    Migrated =>
        \A a \in UserIds : \A row \in DashboardFetchProperties(a) :
            LET own == {sp \in saved : sp.property_id = row.id /\ sp.user_id = a}
            IN  /\ row.saves_count = Cardinality(own)
                /\ row.saves_count <= 1
                /\ own = {} => row.saves_count = 0

\* A property saved by its agent and by another user shows 1, and one saved
\* by another user only would show 0.
C28_Witness ==
    /\ Migrated
    /\ \E a \in UserIds : \E row \in DashboardFetchProperties(a) :
        /\ row.saves_count = 1
        /\ Cardinality({sp \in saved : sp.property_id = row.id}) = 2

=============================================================================
